---- MODULE Spec2Model ----
(***************************************************************************)
(* countdown: a terminal multi-event countdown timer (main.go).            *)
(*                                                                         *)
(* The model follows MainModel and its Update handler message by message.  *)
(* Strings are sequences of one-character strings so that the time parser  *)
(* can be modelled character by character.  The local time zone is taken   *)
(* to be UTC.  The clock `now` counts units of 1/SubSec second, because    *)
(* time.Now() has sub-second precision while event times are whole         *)
(* seconds.  Besides the fields of MainModel the state holds the events    *)
(* file, the tick message the timer has in flight (tick), and the kind of  *)
(* the last message with the file access its handler made (last).          *)
(***************************************************************************)
EXTENDS Integers, Sequences, FiniteSets, TLC

VARIABLES state, focus, events, inputs, timer, inputStatus, file, now, running,
          tick, last

vars == <<state, focus, events, inputs, timer, inputStatus, file, now, running,
          tick, last>>

(***************************************************************************)
(* Bounds of the model.                                                    *)
(***************************************************************************)
\* clock units per second
SubSec == 2
\* the clock runs from 0 to MaxNow units
MaxNow == 1
\* the collection holds at most MaxEvents events
MaxEvents == 2
\* at most MaxTicks ticks of the refresh timer are processed
MaxTicks == 1

(***************************************************************************)
(* Program constants.                                                      *)
(***************************************************************************)
secondsPerYear == 31557600
secondsPerDay == 86400
secondsPerHour == 3600
secondsPerMinute == 60
timeout == 365 * 24 * secondsPerHour
\* the interval of the timer, in seconds
interval == 1
inputTimeFormLong == "2006-01-02 15:04:05"
nameCharLimit == 30
timeCharLimit == 19

\* sessionState
showEvents == "showEvents"
showInput == "showInput"
noEvents == "noEvents"

\* inputFields
inputNameField == 0
inputTimeField == 1
inputCancelButton == 2
inputSubmitButton == 3

(***************************************************************************)
(* Characters and numbers.                                                 *)
(***************************************************************************)
DigitChars == {"0", "1", "2", "3", "4", "5", "6", "7", "8", "9"}

DigitVal(c) ==
    CASE c = "0" -> 0 [] c = "1" -> 1 [] c = "2" -> 2 [] c = "3" -> 3
      [] c = "4" -> 4 [] c = "5" -> 5 [] c = "6" -> 6 [] c = "7" -> 7
      [] c = "8" -> 8 [] c = "9" -> 9

isDigit(s, i) == i >= 1 /\ i <= Len(s) /\ s[i] \in DigitChars

\* the literal character c stands at position i of s
isChar(s, i, c) == i >= 1 /\ i <= Len(s) /\ s[i] = c

\* the value of the two digits at positions i and i+1
Num2(s, i) == 10 * DigitVal(s[i]) + DigitVal(s[i + 1])

\* the value of the four digits at positions i .. i+3
Num4(s, i) == 100 * Num2(s, i) + Num2(s, i + 2)

(***************************************************************************)
(* Calendar arithmetic of the time package (proleptic Gregorian, UTC).     *)
(***************************************************************************)
isLeap(year) == year % 4 = 0 /\ (year % 100 # 0 \/ year % 400 = 0)

daysIn(month, year) ==
    IF month = 2 THEN (IF isLeap(year) THEN 29 ELSE 28)
    ELSE IF month \in {4, 6, 9, 11} THEN 30 ELSE 31

\* days from 1970-01-01 to year-month-day
DaysFromCivil(year, month, day) ==
    LET y == IF month <= 2 THEN year - 1 ELSE year
        era == y \div 400
        yoe == y - era * 400
        mp == (month + 9) % 12
        doy == (153 * mp + 2) \div 5 + day - 1
        doe == yoe * 365 + yoe \div 4 - yoe \div 100 + doy
    IN  era * 146097 + doe - 719468

\* time.Date(year, month, day, hour, min, sec, 0, time.Local).Unix()
DateUnix(year, month, day, hour, min, sec) ==
    DaysFromCivil(year, month, day) * secondsPerDay
        + hour * secondsPerHour + min * secondsPerMinute + sec

\* time.Unix(secs, 0).Year()
YearOf(secs) ==
    LET z == secs \div secondsPerDay + 719468
        era == z \div 146097
        doe == z - era * 146097
        yoe == (doe - doe \div 1460 + doe \div 36524 - doe \div 146096) \div 365
        doy == doe - (365 * yoe + yoe \div 4 - yoe \div 100)
        mp == (5 * doy + 2) \div 153
        month == IF mp < 10 THEN mp + 3 ELSE mp - 9
    IN  IF month <= 2 THEN yoe + era * 400 + 1 ELSE yoe + era * 400

(***************************************************************************)
(* time.ParseInLocation(layout, t, time.Local) for the two layouts         *)
(* "2006-01-02" (long = FALSE) and "2006-01-02 15:04:05" (long = TRUE).    *)
(* The layout is consumed left to right: a four-digit year, a two-digit    *)
(* month in 1..12, a two-digit day, and for the long layout a one- or      *)
(* two-digit hour below 24 and two-digit minutes and seconds below 60.     *)
(* Text left over is an error, and the day is checked against the month    *)
(* last.  (A fraction after the seconds needs a 20th character, which the  *)
(* time field's CharLimit of 19 rules out.)                                *)
(***************************************************************************)
ParseError == [err |-> TRUE, unix |-> 0]

ParseInLocation(long, t) ==
    LET dateOk == /\ Len(t) >= 10
                  /\ \A i \in {1, 2, 3, 4, 6, 7, 9, 10} : isDigit(t, i)
                  /\ isChar(t, 5, "-") /\ isChar(t, 8, "-")
        year == Num4(t, 1)
        month == Num2(t, 6)
        day == Num2(t, 9)
        \* width of the hour field: getnum(value, false)
        hw == IF isDigit(t, 13) THEN 2 ELSE 1
        hour == IF hw = 2 THEN Num2(t, 12) ELSE DigitVal(t[12])
        clockOk == /\ isChar(t, 11, " ")
                   /\ isDigit(t, 12)
                   /\ isChar(t, 12 + hw, ":")
                   /\ isDigit(t, 13 + hw) /\ isDigit(t, 14 + hw)
                   /\ isChar(t, 15 + hw, ":")
                   /\ isDigit(t, 16 + hw) /\ isDigit(t, 17 + hw)
        min == Num2(t, 13 + hw)
        sec == Num2(t, 16 + hw)
        consumed == IF long THEN 17 + hw ELSE 10
    IN  IF ~dateOk THEN ParseError
        ELSE IF month < 1 \/ month > 12 THEN ParseError
        ELSE IF long /\ ~clockOk THEN ParseError
        ELSE IF long /\ (hour >= 24 \/ min >= 60 \/ sec >= 60) THEN ParseError
        ELSE IF Len(t) > consumed THEN ParseError
        ELSE IF day < 1 \/ day > daysIn(month, year) THEN ParseError
        ELSE [err |-> FALSE,
              unix |-> IF long THEN DateUnix(year, month, day, hour, min, sec)
                       ELSE DateUnix(year, month, day, 0, 0, 0)]

(***************************************************************************)
(* Text the user enters into a form field with one key message (a key      *)
(* message carries one or more runes): a name, or a time that is no date,  *)
(* a date in the short form, or a date in the long form.                   *)
(***************************************************************************)
DateText == <<"1", "9", "7", "0", "-", "0", "1", "-", "0", "1">>
ClockText == <<" ", "0", "0", ":", "0", "0", ":", "0", "1">>
Runes(field) ==
    IF field = inputNameField THEN {<<"q">>}
    ELSE {<<"q">>, DateText, DateText \o ClockText}

GolangName == <<"G", "o", "l", "a", "n", "g", "'", "s", " ",
                "B", "i", "r", "t", "h", "d", "a", "y">>

(***************************************************************************)
(* The events file, a sequence of tokens: json.MarshalIndent writes "[",   *)
(* one object {"name": .., "ts": ..} per event with the name as a JSON     *)
(* string (quote and backslash escaped), and "]"; json.Unmarshal reads     *)
(* that back and rejects anything else, a file of zero bytes included.     *)
(***************************************************************************)
NoFile == [exists |-> FALSE, bytes |-> <<>>]

OpenTok == [tok |-> "[", name |-> <<>>, ts |-> 0]
CloseTok == [tok |-> "]", name |-> <<>>, ts |-> 0]

\* the body of the JSON string of s
RECURSIVE EscapeString(_)
EscapeString(s) ==
    IF s = <<>> THEN <<>>
    ELSE (IF Head(s) \in {"\"", "\\"} THEN <<"\\", Head(s)>> ELSE <<Head(s)>>)
         \o EscapeString(Tail(s))

\* the string a JSON string body stands for; a bare quote ends the string
\* early and a backslash needs a quote or a backslash after it
RECURSIVE Unescape(_)
Unescape(b) ==
    IF b = <<>> THEN [err |-> FALSE, text |-> <<>>]
    ELSE IF Head(b) = "\"" THEN [err |-> TRUE, text |-> <<>>]
    ELSE IF Head(b) = "\\"
    THEN IF Len(b) < 2 \/ b[2] \notin {"\"", "\\"} THEN [err |-> TRUE, text |-> <<>>]
         ELSE LET rest == Unescape(SubSeq(b, 3, Len(b)))
              IN  [err |-> rest.err, text |-> <<b[2]>> \o rest.text]
    ELSE LET rest == Unescape(Tail(b))
         IN  [err |-> rest.err, text |-> <<Head(b)>> \o rest.text]

Marshal(evs) ==
    <<OpenTok>>
        \o [i \in 1..Len(evs) |->
              [tok |-> "{}", name |-> EscapeString(evs[i].Name), ts |-> evs[i].Time]]
        \o <<CloseTok>>

Unmarshal(bytes) ==
    IF \/ Len(bytes) < 2
       \/ bytes[1] # OpenTok
       \/ bytes[Len(bytes)] # CloseTok
       \/ \E i \in 2..(Len(bytes) - 1) :
             bytes[i].tok # "{}" \/ Unescape(bytes[i].name).err
    THEN [err |-> TRUE, events |-> <<>>]
    ELSE [err |-> FALSE,
          events |-> [i \in 1..(Len(bytes) - 2) |->
                        [Name |-> Unescape(bytes[i + 1].name).text,
                         Time |-> bytes[i + 1].ts]]]

\* WriteFile opening the file for appending
WriteFileAppends(bytes) == [exists |-> TRUE, bytes |-> file.bytes \o bytes]

\* os.WriteFile(eventsFile, bytes, 0644): the file is replaced as a whole
WriteFile(bytes) == [exists |-> TRUE, bytes |-> bytes]

\* nextGolangAnniversary keeping this year's date at the very moment of it
nextGolangAnniversaryNotAfter(t) ==
    LET year == YearOf(t \div SubSec)
        thisYear == DateUnix(year, 11, 10, 0, 0, 0)
        nextYear == DateUnix(year + 1, 11, 10, 0, 0, 0)
    IN  IF t <= thisYear * SubSec
        THEN [Name |-> GolangName, Time |-> thisYear]
        ELSE [Name |-> GolangName, Time |-> nextYear]

nextGolangAnniversary(t) ==
    LET year == YearOf(t \div SubSec)
        thisYear == DateUnix(year, 11, 10, 0, 0, 0)
        nextYear == DateUnix(year + 1, 11, 10, 0, 0, 0)
    IN  IF t < thisYear * SubSec
        THEN [Name |-> GolangName, Time |-> thisYear]
        ELSE [Name |-> GolangName, Time |-> nextYear]

\* readEventsFile leaving the file it has created without the seed event
readEventsFileNoWrite(f, t) ==
    IF ~f.exists
    THEN LET evs == <<nextGolangAnniversary(t)>>
         IN  [events |-> evs, err |-> FALSE, file |-> WriteFile(<<>>)]
    ELSE LET u == Unmarshal(f.bytes)
         IN  [events |-> u.events, err |-> u.err, file |-> f]

\* readEventsFile seeding also when the file holds no event
readEventsFileSeedsEmpty(f, t) ==
    LET evs == <<nextGolangAnniversary(t)>>
        u == Unmarshal(f.bytes)
    IN  IF ~f.exists \/ (~u.err /\ u.events = <<>>)
        THEN [events |-> evs, err |-> FALSE, file |-> WriteFile(Marshal(evs))]
        ELSE [events |-> u.events, err |-> u.err, file |-> f]

\* the events read, the error, and the file as readEventsFile leaves it
readEventsFile(f, t) ==
    IF ~f.exists
    THEN LET evs == <<nextGolangAnniversary(t)>>
         IN  [events |-> evs, err |-> FALSE, file |-> WriteFile(Marshal(evs))]
    ELSE LET u == Unmarshal(f.bytes)
         IN  [events |-> u.events, err |-> u.err, file |-> f]

\* saveEventsToFile: the file after the save of the list's items
saveEventsToFile(items) == WriteFile(Marshal(items))

(***************************************************************************)
(* list.Model of the bubbles library, as main.go uses it: the items and    *)
(* the cursor (all items fit on one page, no filter is applied).           *)
(***************************************************************************)
\* m.events.Index()
Index(l) == l.cursor

\* RemoveItem with the index off by one: the item after the selected one goes
RemoveItemOffByOne(l, index) ==
    IF index + 1 < 0 \/ index + 1 >= Len(l.items) THEN l
    ELSE [l EXCEPT !.items = SubSeq(l.items, 1, index + 1)
                               \o SubSeq(l.items, index + 3, Len(l.items))]

\* m.events.RemoveItem(index): an index out of range removes nothing
RemoveItem(l, index) ==
    IF index < 0 \/ index >= Len(l.items) THEN l
    ELSE [l EXCEPT !.items = SubSeq(l.items, 1, index)
                               \o SubSeq(l.items, index + 2, Len(l.items))]

\* m.events.InsertItem(index, e): an index past the end appends
InsertItem(l, index, e) ==
    IF index >= Len(l.items) THEN [l EXCEPT !.items = Append(l.items, e)]
    ELSE [l EXCEPT !.items = SubSeq(l.items, 1, index) \o <<e>>
                               \o SubSeq(l.items, index + 1, Len(l.items))]

\* m.events.Update(msg) for a message the list has no binding for: the
\* cursor is kept within the items
ListUpdate(l) ==
    IF l.cursor > Len(l.items) - 1
    THEN [l EXCEPT !.cursor = IF Len(l.items) = 0 THEN 0 ELSE Len(l.items) - 1]
    ELSE l

\* m.events.SelectedItem() is nil when the cursor designates no item
HasSelectedItem(l) == Len(l.items) > 0 /\ l.cursor >= 0 /\ l.cursor < Len(l.items)

(***************************************************************************)
(* validateInputs                                                          *)
(***************************************************************************)
ErrEmptyFields == "Error: empty fields"
ErrParse == "Error: parsing time"
ErrPast == "Error: event time is in the past"

Invalid(msg) == [err |-> TRUE, msg |-> msg, event |-> [Name |-> <<>>, Time |-> 0]]

\* validateInputs choosing the long layout one character too late
validateInputsOffByOne(in, t) ==
    LET name == in[1]
        ts == in[2]
        long == ~(Len(ts) <= Len(inputTimeFormLong))
        p == ParseInLocation(long, ts)
    IN  IF name = <<>> /\ ts = <<>> THEN Invalid(ErrEmptyFields)
        ELSE IF p.err THEN Invalid(ErrParse)
        ELSE IF p.unix * SubSec < t THEN Invalid(ErrPast)
        ELSE [err |-> FALSE, msg |-> "", event |-> [Name |-> name, Time |-> p.unix]]

validateInputs(in, t) ==
    LET name == in[1]
        ts == in[2]
        long == ~(Len(ts) < Len(inputTimeFormLong))
        p == ParseInLocation(long, ts)
    IN  IF name = <<>> /\ ts = <<>> THEN Invalid(ErrEmptyFields)
        ELSE IF p.err THEN Invalid(ErrParse)
        ELSE IF p.unix * SubSec < t THEN Invalid(ErrPast)
        ELSE [err |-> FALSE, msg |-> "", event |-> [Name |-> name, Time |-> p.unix]]

\* InsertIndex comparing with > : an event goes before the events of its time
InsertIndexBeforeTies(items, e) ==
    Cardinality({i \in 1..Len(items) : e.Time > items[i].Time})

\* the index the submit branch inserts at: the number of items e is not before
InsertIndex(items, e) == Cardinality({i \in 1..Len(items) : e.Time >= items[i].Time})

(***************************************************************************)
(* countdownParser: the time left until the event, as the list shows it.   *)
(***************************************************************************)
\* Go's integer division truncates toward zero
Quot(a, b) == IF a >= 0 THEN a \div b ELSE -((-a) \div b)

\* %d
RECURSIVE Itoa(_)
Itoa(n) ==
    IF n < 0 THEN <<"-">> \o Itoa(-n)
    ELSE IF n < 10 THEN <<(<<"0", "1", "2", "3", "4", "5", "6", "7", "8", "9">>)[n + 1]>>
    ELSE Itoa(n \div 10) \o Itoa(n % 10)

\* fmt.Sprintf of a format "%d<letter> ... %d<letter>"
RECURSIVE Sprintf(_)
Sprintf(fields) ==
    IF Len(fields) = 1 THEN Itoa(fields[1][1]) \o <<fields[1][2]>>
    ELSE Itoa(fields[1][1]) \o <<fields[1][2], " ">> \o Sprintf(Tail(fields))

Expired == <<"E", "x", "p", "i", "r", "e", "d">>

\* int(time.Until(time.Unix(ts, 0)).Seconds()) at the moment t: the
\* conversion to int drops the fraction, toward zero
UntilSeconds(ts, t) == Quot(ts * SubSec - t, SubSec)

\* Breakdown taking the hours from what is left of the year, days included
BreakdownHoursWithDays(diff) ==
    LET years == Quot(diff, secondsPerYear)
        days == Quot(diff - years * secondsPerYear, secondsPerDay)
        hours == Quot(diff - years * secondsPerYear, secondsPerHour)
        minutes == Quot(diff - years * secondsPerYear - days * secondsPerDay
                             - hours * secondsPerHour, secondsPerMinute)
        seconds == diff - years * secondsPerYear - days * secondsPerDay
                        - hours * secondsPerHour - minutes * secondsPerMinute
    IN  [years |-> years, days |-> days, hours |-> hours, minutes |-> minutes,
         seconds |-> seconds]

\* the components of diff
Breakdown(diff) ==
    LET years == Quot(diff, secondsPerYear)
        days == Quot(diff - years * secondsPerYear, secondsPerDay)
        hours == Quot(diff - years * secondsPerYear - days * secondsPerDay,
                      secondsPerHour)
        minutes == Quot(diff - years * secondsPerYear - days * secondsPerDay
                             - hours * secondsPerHour, secondsPerMinute)
        seconds == diff - years * secondsPerYear - days * secondsPerDay
                        - hours * secondsPerHour - minutes * secondsPerMinute
    IN  [years |-> years, days |-> days, hours |-> hours, minutes |-> minutes,
         seconds |-> seconds]

\* Format with the second if statement asking for days > 0 only: it takes
\* the years field away again
FormatNoYearGuard(b) ==
    LET r1 == IF b.years > 0
              THEN Sprintf(<<<<b.years, "y">>, <<b.days, "d">>, <<b.hours, "h">>,
                             <<b.minutes, "m">>, <<b.seconds, "s">>>>)
              ELSE <<>>
        r2 == IF b.days > 0
              THEN Sprintf(<<<<b.days, "d">>, <<b.hours, "h">>, <<b.minutes, "m">>,
                             <<b.seconds, "s">>>>)
              ELSE r1
        r3 == IF b.years = 0 /\ b.days = 0 /\ b.hours > 0
              THEN Sprintf(<<<<b.hours, "h">>, <<b.minutes, "m">>, <<b.seconds, "s">>>>)
              ELSE r2
        r4 == IF b.years = 0 /\ b.days = 0 /\ b.hours = 0 /\ b.minutes > 0
              THEN Sprintf(<<<<b.minutes, "m">>, <<b.seconds, "s">>>>)
              ELSE r3
    IN  IF b.years = 0 /\ b.days = 0 /\ b.hours = 0 /\ b.minutes = 0
        THEN Sprintf(<<<<b.seconds, "s">>>>)
        ELSE r4

\* the five if statements that choose the format, one after the other
Format(b) ==
    LET r1 == IF b.years > 0
              THEN Sprintf(<<<<b.years, "y">>, <<b.days, "d">>, <<b.hours, "h">>,
                             <<b.minutes, "m">>, <<b.seconds, "s">>>>)
              ELSE <<>>
        r2 == IF b.years = 0 /\ b.days > 0
              THEN Sprintf(<<<<b.days, "d">>, <<b.hours, "h">>, <<b.minutes, "m">>,
                             <<b.seconds, "s">>>>)
              ELSE r1
        r3 == IF b.years = 0 /\ b.days = 0 /\ b.hours > 0
              THEN Sprintf(<<<<b.hours, "h">>, <<b.minutes, "m">>, <<b.seconds, "s">>>>)
              ELSE r2
        r4 == IF b.years = 0 /\ b.days = 0 /\ b.hours = 0 /\ b.minutes > 0
              THEN Sprintf(<<<<b.minutes, "m">>, <<b.seconds, "s">>>>)
              ELSE r3
    IN  IF b.years = 0 /\ b.days = 0 /\ b.hours = 0 /\ b.minutes = 0
        THEN Sprintf(<<<<b.seconds, "s">>>>)
        ELSE r4

\* countdownParser with diff <= 0 as the test for an expired event
countdownParserExpiredAtZero(ts, t) ==
    LET diff == UntilSeconds(ts, t)
    IN  IF diff <= 0 THEN Expired ELSE Format(Breakdown(diff))

countdownParser(ts, t) ==
    LET diff == UntilSeconds(ts, t)
    IN  IF diff < 0 THEN Expired ELSE Format(Breakdown(diff))

\* View at the moment t: the countdown of every event of the list in
\* showEvents (the form and the "No events" screen show no countdown)
View(st, l, t) ==
    IF st = showEvents
    THEN [i \in 1..Len(l.items) |-> countdownParser(l.items[i].Time, t)]
    ELSE <<>>

(***************************************************************************)
(* NewMainModel: the model built from the events file at time t.           *)
(***************************************************************************)
NoInputs == <<<<>>, <<>>>>

\* NewMainModel keeping the state showEvents whatever it has read
NewMainModelAlwaysShows(f, t) ==
    LET r == readEventsFile(f, t)
    IN  [state |-> showEvents,
         focus |-> 0,
         events |-> [items |-> r.events, cursor |-> 0],
         inputs |-> NoInputs,
         timer |-> timeout,
         inputStatus |-> "",
         file |-> r.file,
         io |-> IF f.exists THEN "read" ELSE "write",
         panic |-> r.err]

NewMainModel(f, t) ==
    LET r == readEventsFile(f, t)
    IN  [state |-> IF Len(r.events) = 0 THEN noEvents ELSE showEvents,
         focus |-> 0,
         events |-> [items |-> r.events, cursor |-> 0],
         inputs |-> NoInputs,
         timer |-> timeout,
         inputStatus |-> "",
         file |-> r.file,
         io |-> IF f.exists THEN "read" ELSE "write",
         panic |-> r.err]

\* first start: no events file yet
Init ==
    LET m == NewMainModel(NoFile, 0)
    IN  /\ state = m.state
        /\ focus = m.focus
        /\ events = m.events
        /\ inputs = m.inputs
        /\ timer = m.timer
        /\ inputStatus = m.inputStatus
        /\ file = m.file
        /\ now = 0
        /\ running = "running"
        /\ tick = TRUE
        /\ last = [msg |-> "start", io |-> m.io]

(***************************************************************************)
(* Update, one action per message.                                         *)
(***************************************************************************)
\* resetInputs has a value receiver: the two Reset calls reach the shared
\* inputs slice, the assignments to m.focus and m.inputStatus are made to
\* the receiver's copy and do not reach the caller's model
resetInputs == inputs' = NoInputs

\* after Update the program renders View of the new model: in showEvents
\* detailsString asserts the selected item to be an Event, which panics
\* when the list has no selected item
Render(st, l) ==
    IF st = showEvents /\ ~HasSelectedItem(l) THEN "panic" ELSE "running"

Rendered == running' = Render(state', events')

\* a key message of the kind msg, with the file access io of its handler;
\* the timer takes it too and schedules nothing for it
Handled(msg, io) ==
    /\ last' = [msg |-> msg, io |-> io]
    /\ tick' = tick
    /\ Rendered

\* "+"
KeyAdd ==
    /\ running = "running"
    /\ state \in {noEvents, showEvents}
    /\ state' = showInput
    /\ events' = IF state = showEvents THEN ListUpdate(events) ELSE events
    /\ UNCHANGED <<focus, inputs, timer, inputStatus, file, now>>
    /\ Handled("key", "none")

\* KeyRemove matched on the "No events" screen too
KeyRemoveInNoEvents ==
    /\ running = "running"
    /\ state \in {showEvents, noEvents}
    /\ LET removed == RemoveItem(events, Index(events))
       IN  /\ file' = saveEventsToFile(removed.items)
           /\ state' = IF Len(removed.items) = 0 THEN noEvents ELSE showEvents
           /\ events' = ListUpdate(removed)
    /\ UNCHANGED <<focus, inputs, timer, inputStatus, now>>
    /\ Handled("key", "write")

\* "-"
KeyRemove ==
    /\ running = "running"
    /\ state = showEvents
    /\ LET removed == RemoveItem(events, Index(events))
       IN  /\ file' = saveEventsToFile(removed.items)
           /\ state' = IF Len(removed.items) = 0 THEN noEvents ELSE showEvents
           /\ events' = ListUpdate(removed)
    /\ UNCHANGED <<focus, inputs, timer, inputStatus, now>>
    /\ Handled("key", "write")

\* the runes a field takes: those that fit below its CharLimit
Typed(value, r, limit) ==
    IF Len(value) + Len(r) <= limit THEN value \o r
    ELSE value \o SubSeq(r, 1, limit - Len(value))

\* "q": Keymap.Quit is matched in showEvents only; noEvents matches nothing
\* but Add, and in showInput the focused text field takes the rune
KeyQuit ==
    /\ running = "running"
    /\ UNCHANGED <<state, focus, events, timer, inputStatus, file, now, tick>>
    /\ last' = [msg |-> "quit", io |-> "none"]
    /\ IF state = showEvents
       THEN /\ running' = "quit"
            /\ UNCHANGED inputs
       ELSE IF state = showInput /\ focus \in {inputNameField, inputTimeField}
       THEN /\ inputs[focus + 1] = <<>>
            /\ inputs' = [inputs EXCEPT ![focus + 1] =
                            Typed(@, <<"q">>, IF focus = inputNameField
                                              THEN nameCharLimit ELSE timeCharLimit)]
            /\ Rendered
       ELSE /\ UNCHANGED inputs
            /\ Rendered

\* "up" and "down", handled by the list
KeyUp ==
    /\ running = "running"
    /\ state = showEvents
    /\ events' = ListUpdate([events EXCEPT !.cursor =
                                IF events.cursor > 0 THEN events.cursor - 1 ELSE 0])
    /\ UNCHANGED <<state, focus, inputs, timer, inputStatus, file, now>>
    /\ Handled("key", "none")

KeyDown ==
    /\ running = "running"
    /\ state = showEvents
    /\ events' = ListUpdate([events EXCEPT !.cursor = events.cursor + 1])
    /\ UNCHANGED <<state, focus, inputs, timer, inputStatus, file, now>>
    /\ Handled("key", "none")

\* "esc"
KeyBack ==
    /\ running = "running"
    /\ state = showInput
    /\ resetInputs
    /\ state' = showEvents
    /\ UNCHANGED <<focus, events, timer, inputStatus, file, now>>
    /\ Handled("key", "none")

\* KeyNext without the wrap from the Submit button to the name field
KeyNextNoWrap ==
    /\ running = "running"
    /\ state = showInput
    /\ focus' = focus + 1
    /\ UNCHANGED <<state, events, inputs, timer, inputStatus, file, now>>
    /\ Handled("key", "none")

\* "tab"
KeyNext ==
    /\ running = "running"
    /\ state = showInput
    /\ focus' = IF focus + 1 > inputSubmitButton THEN inputNameField ELSE focus + 1
    /\ UNCHANGED <<state, events, inputs, timer, inputStatus, file, now>>
    /\ Handled("key", "none")

\* "shift+tab"
KeyPrev ==
    /\ running = "running"
    /\ state = showInput
    /\ focus' = IF focus - 1 < inputNameField THEN inputSubmitButton ELSE focus - 1
    /\ UNCHANGED <<state, events, inputs, timer, inputStatus, file, now>>
    /\ Handled("key", "none")

\* Submit leaving the focus where it is when the validation fails
SubmitKeepsFocus ==
    LET v == validateInputs(inputs, now)
        index == InsertIndex(events.items, v.event)
    IN  IF v.err
        THEN /\ inputs' = NoInputs
             /\ inputStatus' = v.msg
             /\ UNCHANGED <<state, focus, events, file>>
             /\ last' = [msg |-> "key", io |-> "none"]
        ELSE /\ Len(events.items) < MaxEvents
             /\ IF Len(events.items) = 0
                THEN /\ events' = ListUpdate(InsertItem(events, 0, v.event))
                     /\ UNCHANGED file
                     /\ last' = [msg |-> "key", io |-> "none"]
                ELSE /\ events' = ListUpdate(InsertItem(events, index, v.event))
                     /\ file' = saveEventsToFile(InsertItem(events, index, v.event).items)
                     /\ last' = [msg |-> "key", io |-> "write"]
             /\ resetInputs
             /\ state' = showEvents
             /\ UNCHANGED <<focus, inputStatus>>

\* Submit saving after the insert into an empty list as well
SubmitAlwaysSaves ==
    LET v == validateInputs(inputs, now)
        index == InsertIndex(events.items, v.event)
    IN  IF v.err
        THEN /\ inputs' = NoInputs
             /\ focus' = 0
             /\ inputStatus' = v.msg
             /\ UNCHANGED <<state, events, file>>
             /\ last' = [msg |-> "key", io |-> "none"]
        ELSE /\ Len(events.items) < MaxEvents
             /\ events' = ListUpdate(InsertItem(events, index, v.event))
             /\ file' = saveEventsToFile(InsertItem(events, index, v.event).items)
             /\ last' = [msg |-> "key", io |-> "write"]
             /\ resetInputs
             /\ state' = showEvents
             /\ UNCHANGED <<focus, inputStatus>>

\* "enter" on the Submit button
Submit ==
    LET v == validateInputs(inputs, now)
        index == InsertIndex(events.items, v.event)
    IN  IF v.err
        THEN /\ inputs' = NoInputs
             /\ focus' = 0
             /\ inputStatus' = v.msg
             /\ UNCHANGED <<state, events, file>>
             /\ last' = [msg |-> "key", io |-> "none"]
        ELSE /\ Len(events.items) < MaxEvents
             /\ IF Len(events.items) = 0
                THEN /\ events' = ListUpdate(InsertItem(events, 0, v.event))
                     /\ UNCHANGED file
                     /\ last' = [msg |-> "key", io |-> "none"]
                ELSE /\ events' = ListUpdate(InsertItem(events, index, v.event))
                     /\ file' = saveEventsToFile(InsertItem(events, index, v.event).items)
                     /\ last' = [msg |-> "key", io |-> "write"]
             /\ resetInputs
             /\ state' = showEvents
             /\ UNCHANGED <<focus, inputStatus>>

\* KeyEnter submitting from the time field already
KeyEnterSubmitsFromTime ==
    /\ running = "running"
    /\ state = showInput
    /\ focus \in inputNameField..inputSubmitButton
    /\ IF focus = inputNameField
       THEN /\ focus' = focus + 1
            /\ UNCHANGED <<state, events, inputs, inputStatus, file>>
            /\ last' = [msg |-> "key", io |-> "none"]
       ELSE IF focus = inputCancelButton
       THEN /\ resetInputs
            /\ state' = showEvents
            /\ UNCHANGED <<focus, events, inputStatus, file>>
            /\ last' = [msg |-> "key", io |-> "none"]
       ELSE Submit
    /\ UNCHANGED <<timer, now, tick>>
    /\ Rendered

\* "enter"
KeyEnter ==
    /\ running = "running"
    /\ state = showInput
    /\ focus \in inputNameField..inputSubmitButton
    /\ IF focus \in {inputNameField, inputTimeField}
       THEN /\ focus' = focus + 1
            /\ UNCHANGED <<state, events, inputs, inputStatus, file>>
            /\ last' = [msg |-> "key", io |-> "none"]
       ELSE IF focus = inputCancelButton
       THEN /\ resetInputs
            /\ state' = showEvents
            /\ UNCHANGED <<focus, events, inputStatus, file>>
            /\ last' = [msg |-> "key", io |-> "none"]
       ELSE Submit
    /\ UNCHANGED <<timer, now, tick>>
    /\ Rendered

\* a key message of runes: the focused text field takes them (each field is
\* filled with one message)
KeyRunes(r) ==
    /\ running = "running"
    /\ state = showInput
    /\ focus \in {inputNameField, inputTimeField}
    /\ inputs[focus + 1] = <<>>
    /\ inputs' = [inputs EXCEPT ![focus + 1] =
                    Typed(@, r, IF focus = inputNameField THEN nameCharLimit
                                ELSE timeCharLimit)]
    /\ UNCHANGED <<state, focus, events, timer, inputStatus, file, now>>
    /\ Handled("key", "none")

\* Tick clearing the error message of the add form at every refresh
TickClearsStatus ==
    /\ running = "running"
    /\ tick
    /\ timer > timeout - MaxTicks * interval
    /\ events' = IF state = showEvents THEN ListUpdate(events) ELSE events
    /\ IF timer > 0
       THEN /\ timer' = timer - interval
            /\ tick' = TRUE
       ELSE /\ UNCHANGED timer
            /\ tick' = FALSE
    /\ inputStatus' = ""
    /\ UNCHANGED <<state, focus, inputs, file, now>>
    /\ last' = [msg |-> "tick", io |-> "none"]
    /\ Rendered

\* Tick with the add form returning before the timer is updated: the tick
\* is consumed and no next tick is scheduled
TickLostInForm ==
    /\ running = "running"
    /\ tick
    /\ timer > timeout - MaxTicks * interval
    /\ events' = IF state = showEvents THEN ListUpdate(events) ELSE events
    /\ IF timer > 0 /\ state # showInput
       THEN /\ timer' = timer - interval
            /\ tick' = TRUE
       ELSE /\ UNCHANGED timer
            /\ tick' = FALSE
    /\ UNCHANGED <<state, focus, inputs, inputStatus, file, now>>
    /\ last' = [msg |-> "tick", io |-> "none"]
    /\ Rendered

\* timer.TickMsg, the message the timer has in flight: the list and the form
\* have no binding for it; a running timer takes one interval off its
\* timeout and schedules the next tick, a timer that has timed out drops it
Tick ==
    /\ running = "running"
    /\ tick
    /\ timer > timeout - MaxTicks * interval
    /\ events' = IF state = showEvents THEN ListUpdate(events) ELSE events
    /\ IF timer > 0
       THEN /\ timer' = timer - interval
            /\ tick' = TRUE
       ELSE /\ UNCHANGED timer
            /\ tick' = FALSE
    /\ UNCHANGED <<state, focus, inputs, inputStatus, file, now>>
    /\ last' = [msg |-> "tick", io |-> "none"]
    /\ Rendered

\* time passes
Advance ==
    /\ now < MaxNow
    /\ now' = now + 1
    /\ UNCHANGED <<state, focus, events, inputs, timer, inputStatus, file, running,
                   tick, last>>

\* os.Create(eventsFile): the file exists and has no bytes
Create == [exists |-> TRUE, bytes |-> <<>>]

\* the program is started without an events file and readEventsFile does not
\* get past its write: os.Create has made the file, then the process is
\* stopped, or os.WriteFile returns an error and NewMainModel panics on it
StartFails ==
    /\ running \in {"off", "quit", "panic"}
    /\ ~file.exists
    /\ file' = Create
    /\ running' = "panic"
    /\ tick' = FALSE
    /\ last' = [msg |-> "start", io |-> "failed"]
    /\ UNCHANGED <<state, focus, events, inputs, timer, inputStatus, now>>

\* the program is started, for the first time, or again after a quit or a
\* panic, and the operations on its file succeed
Restart ==
    /\ running \in {"off", "quit", "panic"}
    /\ LET m == NewMainModel(file, now)
       IN  /\ state' = m.state
           /\ focus' = m.focus
           /\ events' = m.events
           /\ inputs' = m.inputs
           /\ timer' = m.timer
           /\ inputStatus' = m.inputStatus
           /\ file' = m.file
           /\ running' = IF m.panic THEN "panic" ELSE "running"
           /\ tick' = ~m.panic
           /\ last' = [msg |-> "start", io |-> m.io]
    /\ UNCHANGED now

Next ==
    \/ KeyAdd
    \/ KeyRemove
    \/ KeyQuit
    \/ KeyUp
    \/ KeyDown
    \/ KeyBack
    \/ KeyNext
    \/ KeyPrev
    \/ KeyEnter
    \/ \E r \in Runes(focus) : KeyRunes(r)
    \/ Tick
    \/ Advance
    \/ Restart

Spec == Init /\ [][Next]_vars

(***************************************************************************)
(* A second specification for the validation: the add form is open on the  *)
(* Submit button and holds any name and any of the time texts below, at    *)
(* any moment; Enter submits it.                                           *)
(***************************************************************************)
NameTexts == {<<>>, <<"x">>}

TimeTexts ==
    {<<>>,
     <<"x">>,
     <<"1", "9", "7", "0", "-", "0", "1", "-", "0", "1">>,
     <<"1", "9", "7", "0", "-", "0", "1", "-", "0", "2">>,
     <<"1", "9", "6", "9", "-", "1", "2", "-", "3", "1">>,
     <<"1", "9", "7", "0", "-", "0", "2", "-", "2", "9">>,
     <<"1", "9", "7", "2", "-", "0", "2", "-", "2", "9">>,
     <<"1", "9", "7", "0", "-", "1", "3", "-", "0", "1">>,
     <<"1", "9", "7", "0", "-", "1", "-", "0", "1">>,
     <<"1", "9", "7", "0", "-", "0", "1", "-", "0", "1", " ">>,
     <<"1", "9", "7", "0", "-", "0", "1", "-", "0", "1", " ", "0", "0", ":", "0", "0", ":", "0", "0">>,
     <<"1", "9", "7", "0", "-", "0", "1", "-", "0", "1", " ", "0", "0", ":", "0", "0", ":", "0", "1">>,
     <<"1", "9", "7", "0", "-", "0", "1", "-", "0", "1", " ", "0", ":", "0", "0", ":", "0", "1">>,
     <<"1", "9", "7", "0", "-", "0", "1", "-", "0", "1", " ", "0", ":", "0", "0", ":", "0", "1", ".">>,
     <<"1", "9", "7", "0", "-", "0", "1", "-", "0", "1", " ", "0", "0", ":", "0", "0", ":", "0">>,
     <<"1", "9", "7", "0", "-", "0", "1", "-", "0", "1", " ", "2", "4", ":", "0", "0", ":", "0", "0">>,
     <<"1", "9", "7", "0", "-", "0", "1", "-", "0", "1", " ", "0", "0", ":", "0", "0", ":", "6", "0">>,
     <<"1", "9", "7", "0", "-", "0", "1", "-", "0", "1", "T", "0", "0", ":", "0", "0", ":", "0", "1">>,
     <<"1", "9", "6", "9", "-", "1", "2", "-", "3", "1", " ", "2", "3", ":", "5", "9", ":", "5", "9">>}

InitValidate ==
    LET m == NewMainModel(NoFile, 0)
    IN  /\ state = showInput
        /\ focus = inputSubmitButton
        /\ events = m.events
        /\ inputs \in {<<n, t>> : n \in NameTexts, t \in TimeTexts}
        /\ timer = m.timer
        /\ inputStatus = m.inputStatus
        /\ file = m.file
        /\ now \in 0..MaxNow
        /\ running = "running"
        /\ tick = TRUE
        /\ last = [msg |-> "key", io |-> "none"]

NextValidate ==
    \/ KeyEnter
    \/ KeyNext
    \/ Advance

SpecValidate == InitValidate /\ [][NextValidate]_vars

(***************************************************************************)
(* A third specification for the start of the program and the events       *)
(* file: the program is not running yet; the events file is absent, or     *)
(* holds the empty array, or holds MaxEvents events in the order of their  *)
(* times, with names that need escaping among them.  The program is        *)
(* started, with the write of the seed succeeding or not, events are       *)
(* removed (every remove saves), the add form is opened and closed, the    *)
(* program is quit and started again.                                      *)
(***************************************************************************)
StartEvents ==
    {[Name |-> <<"\"">>, Time |-> 0],
     [Name |-> <<"\\", "q">>, Time |-> 1],
     nextGolangAnniversary(0)}

StartFiles ==
    {NoFile, [exists |-> TRUE, bytes |-> Marshal(<<>>)]}
        \cup {[exists |-> TRUE, bytes |-> Marshal(evs)] :
                evs \in {e \in [1..MaxEvents -> StartEvents] :
                           \A i \in 1..(MaxEvents - 1) : e[i].Time <= e[i + 1].Time}}

InitStart ==
    /\ state = noEvents
    /\ focus = 0
    /\ events = [items |-> <<>>, cursor |-> 0]
    /\ inputs = NoInputs
    /\ timer = timeout
    /\ inputStatus = ""
    /\ file \in StartFiles
    /\ now \in 0..MaxNow
    /\ running = "off"
    /\ tick = FALSE
    /\ last = [msg |-> "none", io |-> "none"]

NextStart ==
    \/ Restart
    \/ StartFails
    \/ KeyRemove
    \/ KeyUp
    \/ KeyDown
    \/ KeyAdd
    \/ KeyBack
    \/ KeyQuit
    \/ Tick
    \/ Advance

SpecStart == InitStart /\ [][NextStart]_vars

(***************************************************************************)
(* A fourth specification for the countdown: the list shows one event, due *)
(* at any of the times below (seconds from the start of the clock, before  *)
(* and after it, up to years ahead); time passes, ticks refresh the        *)
(* screen and the cursor keys are pressed.                                 *)
(***************************************************************************)
CountdownTargets ==
    {-secondsPerYear - 1, -secondsPerDay, -61, -2, -1, 0, 1, 2, 45, 59, 60, 61,
     1800, 3599, 3600, 3661, 21600, 86399, 86400, 86401, 90061, 432000,
     secondsPerYear - 1, secondsPerYear, secondsPerYear + 1,
     secondsPerYear + secondsPerDay, secondsPerYear + 3600,
     2 * secondsPerYear - 1, 2 * secondsPerYear, 2 * secondsPerYear + 1382645}

InitCountdown ==
    \E ts \in CountdownTargets :
        LET evs == <<[Name |-> <<"q">>, Time |-> ts]>>
        IN  /\ state = showEvents
            /\ focus = 0
            /\ events = [items |-> evs, cursor |-> 0]
            /\ inputs = NoInputs
            /\ timer = timeout
            /\ inputStatus = ""
            /\ file = [exists |-> TRUE, bytes |-> Marshal(evs)]
            /\ now = 0
            /\ running = "running"
            /\ tick = TRUE
            /\ last = [msg |-> "start", io |-> "read"]

NextCountdown ==
    \/ Tick
    \/ Advance
    \/ KeyUp
    \/ KeyDown

SpecCountdown == InitCountdown /\ [][NextCountdown]_vars

(***************************************************************************)
(* A fifth specification for the seed event: the program is started for    *)
(* the first time, without an events file, at any of the moments below     *)
(* (clock units): the start of the clock, the moments around November 10   *)
(* of three years, a leap year among them, the turns of the years and a    *)
(* leap day.  The session then goes on with keys and ticks.                *)
(***************************************************************************)
SeedMoments ==
    {0, 1,
     27043200 * SubSec - 1, 27043200 * SubSec, 27043200 * SubSec + 1,
     31536000 * SubSec - 1, 31536000 * SubSec,
     58579200 * SubSec - 1, 58579200 * SubSec, 58579200 * SubSec + 1,
     63072000 * SubSec - 1, 63072000 * SubSec,
     68169600 * SubSec,
     90201600 * SubSec - 1, 90201600 * SubSec, 90201600 * SubSec + 1,
     94694400 * SubSec - 1}

InitSeed ==
    /\ state = noEvents
    /\ focus = 0
    /\ events = [items |-> <<>>, cursor |-> 0]
    /\ inputs = NoInputs
    /\ timer = timeout
    /\ inputStatus = ""
    /\ file = NoFile
    /\ now \in SeedMoments
    /\ running = "off"
    /\ tick = FALSE
    /\ last = [msg |-> "none", io |-> "none"]

NextSeed ==
    \/ Restart
    \/ KeyAdd
    \/ KeyBack
    \/ KeyNext
    \/ KeyUp
    \/ KeyDown
    \/ KeyQuit
    \/ Tick

SpecSeed == InitSeed /\ [][NextSeed]_vars

(***************************************************************************)
(* The claims.                                                             *)
(***************************************************************************)
\* the events the file holds
Persisted(f) == Unmarshal(f.bytes).events

\* the steps of Update the claims speak of
StepStart == Restart
StepCancel == KeyBack \/ (KeyEnter /\ focus = inputCancelButton)
StepSubmit == KeyEnter /\ focus = inputSubmitButton
StepSubmitOk == StepSubmit /\ ~validateInputs(inputs, now).err
StepSubmitFails == StepSubmit /\ validateInputs(inputs, now).err

Sorted(items) == \A i \in 1..(Len(items) - 1) : items[i].Time <= items[i + 1].Time

\* C1: whenever the add form is not open, the state is noEvents if and only
\* if the event collection is empty.
C1_NoEventsIffEmpty ==
    state # showInput => ((state = noEvents) <=> (Len(events.items) = 0))

\* C2: right after every successful submit and after every remove, the
\* events file holds the in-memory collection, same events in the same order.
C2_PersistedAfterEveryMutation ==
    [][(KeyRemove \/ StepSubmitOk)
          => (file'.exists /\ Persisted(file') = events'.items)]_vars

\* C3: once the program has quit, loading the events file yields exactly the
\* collection that was in memory at the quit.
C3_QuitLosesNothing ==
    running = "quit" => readEventsFile(file, now).events = events.items

\* C4: the collection is non-decreasing in time before and after every step,
\* and a successful submit places the new event at the index that equals the
\* number of existing events with time <= its time, after all ties, leaving
\* the other events in their order.
C4_InsertKeepsSorted ==
    [][/\ Sorted(events.items)
       /\ Sorted(events'.items)
       /\ StepSubmitOk =>
            LET e == validateInputs(inputs, now).event
                old == events.items
                new == events'.items
                k == Cardinality({i \in 1..Len(old) : old[i].Time <= e.Time})
            IN  /\ Len(new) = Len(old) + 1
                /\ new[k + 1] = e
                /\ \A i \in 1..k : new[i] = old[i] /\ old[i].Time <= e.Time
                /\ \A i \in (k + 1)..Len(old) : new[i + 1] = old[i] /\ old[i].Time > e.Time]_vars

\* C4 witness: two events of the same time, the one submitted later second.
C4_Witness ==
    /\ Len(events.items) = 2
    /\ events.items[1].Time = events.items[2].Time
    /\ events.items[1].Name = <<"q">>
    /\ events.items[2].Name = <<>>

\* C5: a submit whose validation fails keeps the state showInput, clears both
\* input buffers, puts the focus on the name field, records the error message
\* and leaves the collection and the events file as they were.
C5_FailedSubmitRecoverable ==
    [][StepSubmitFails =>
          /\ state' = showInput
          /\ inputs' = <<<<>>, <<>>>>
          /\ focus' = inputNameField
          /\ inputStatus' = validateInputs(inputs, now).msg
          /\ inputStatus' \in {ErrEmptyFields, ErrParse, ErrPast}
          /\ events' = events
          /\ file' = file]_vars

\* C5 witness: the form after the submit of a date that has passed: still
\* open, empty, the focus on the name field, the error on display.
C5_Witness ==
    /\ state = showInput
    /\ inputStatus = ErrPast
    /\ focus = inputNameField
    /\ inputs = <<<<>>, <<>>>>
    /\ now > 0

\* what the time package makes of each time text: the epoch seconds, or no
\* time at all (the short layout applies below 19 characters, the long from 19)
ExpectedParse(t) ==
    CASE t = <<"1", "9", "7", "0", "-", "0", "1", "-", "0", "1">> -> [ok |-> TRUE, unix |-> 0]
      [] t = <<"1", "9", "7", "0", "-", "0", "1", "-", "0", "2">> -> [ok |-> TRUE, unix |-> 86400]
      [] t = <<"1", "9", "6", "9", "-", "1", "2", "-", "3", "1">> -> [ok |-> TRUE, unix |-> -86400]
      [] t = <<"1", "9", "7", "2", "-", "0", "2", "-", "2", "9">> -> [ok |-> TRUE, unix |-> 68169600]
      [] t = <<"1", "9", "7", "0", "-", "0", "1", "-", "0", "1", " ", "0", "0", ":", "0", "0", ":", "0", "0">> -> [ok |-> TRUE, unix |-> 0]
      [] t = <<"1", "9", "7", "0", "-", "0", "1", "-", "0", "1", " ", "0", "0", ":", "0", "0", ":", "0", "1">> -> [ok |-> TRUE, unix |-> 1]
      [] t = <<"1", "9", "6", "9", "-", "1", "2", "-", "3", "1", " ", "2", "3", ":", "5", "9", ":", "5", "9">> -> [ok |-> TRUE, unix |-> -1]
      [] OTHER -> [ok |-> FALSE, unix |-> 0]

\* C6: validateInputs applies its rules in order: both fields empty is
\* "empty fields"; else a time text that does not parse (short layout below
\* 19 characters, long layout otherwise) is a parse error, also when only the
\* time is empty; else a time strictly before now is "in the past", a time
\* equal to now is accepted; else the event {name, epoch seconds} is
\* returned, also for an empty name.
C6_ValidateRules ==
    (inputs[2] \in TimeTexts) =>
        LET name == inputs[1]
            t == inputs[2]
            v == validateInputs(inputs, now)
            x == ExpectedParse(t)
        IN  IF name = <<>> /\ t = <<>> THEN v.err /\ v.msg = ErrEmptyFields
            ELSE IF ~x.ok THEN v.err /\ v.msg = ErrParse
            ELSE IF x.unix * SubSec < now THEN v.err /\ v.msg = ErrPast
            ELSE ~v.err /\ v.event = [Name |-> name, Time |-> x.unix]

\* C6 witness: Enter has submitted the leap day 1972-02-29 with no name, and
\* the event is in the collection.
C6_Witness ==
    /\ state = showEvents
    /\ \E i \in 1..Len(events.items) :
          events.items[i] = [Name |-> <<>>, Time |-> 68169600]

\* C7: no event of the collection and no event of the events file has an
\* empty name.
C7_NamesNonEmpty ==
    /\ \A i \in 1..Len(events.items) : events.items[i].Name # <<>>
    /\ file.exists => \A i \in 1..Len(Persisted(file)) : Persisted(file)[i].Name # <<>>

\* C8: a remove in showEvents removes exactly the selected event, the others
\* keeping their order, saves the resulting collection, and the state becomes
\* noEvents if the collection is empty now and stays showEvents otherwise.
C8_RemoveSelected ==
    [][KeyRemove =>
          LET old == events.items
              new == events'.items
              sel == Index(events) + 1
              n == IF HasSelectedItem(events) THEN 1 ELSE 0
          IN  /\ Len(new) = Len(old) - n
              /\ \A i \in 1..Len(new) : new[i] = IF i < sel THEN old[i] ELSE old[i + 1]
              /\ file'.exists /\ Persisted(file') = new
              /\ state' = IF Len(new) = 0 THEN noEvents ELSE showEvents
              /\ (Len(old) = 1 => state' = noEvents)]_vars

\* C8 witness: the last event has been removed: no events, and the file
\* holds the empty array.
C8_Witness ==
    /\ state = noEvents
    /\ Len(events.items) = 0
    /\ file = [exists |-> TRUE, bytes |-> Marshal(<<>>)]

\* C9: cancelling the add form (Back, or Enter on the Cancel button) moves
\* the state to showEvents, empties both input buffers, puts the focus on
\* the name field and clears the recorded error message.
C9_CancelResetsForm ==
    [][StepCancel =>
          /\ state' = showEvents
          /\ inputs' = <<<<>>, <<>>>>
          /\ focus' = inputNameField
          /\ inputStatus' = ""]_vars

\* C10: showInput is left only by Back, by Enter on the Cancel button and by
\* Enter on the Submit button with a successful validation; Enter on the
\* name or time field only advances the focus by one; and while the form is
\* open the collection, the file and the error message change only on Enter
\* with the focus on the Submit button.
C10_LeaveFormOnlyByCancelOrSubmit ==
    [][state = showInput =>
          /\ state' # showInput => (StepCancel \/ StepSubmitOk)
          /\ (KeyEnter /\ focus \in {inputNameField, inputTimeField})
                => (state' = showInput /\ focus' = focus + 1)
          /\ StepSubmitFails => state' = showInput
          /\ (events' # events \/ file' # file \/ inputStatus' # inputStatus)
                => StepSubmit]_vars

\* C10 witness: the form still open after Enter on the name field and on the
\* time field, both filled in, the focus on the Cancel button.
C10_Witness ==
    /\ state = showInput
    /\ focus = inputCancelButton
    /\ inputs[1] # <<>>
    /\ inputs[2] # <<>>

\* C11: a tick is delivered in every state (noEvents, showEvents, showInput)
\* and changes nothing but the refresh timer: the step that handles it leaves
\* the state, the event collection, the form buffers, the focus index and
\* the error message unchanged and neither reads nor writes the events file.
C11_TickChangesOnlyTimer ==
    [][/\ (running = "running" /\ timer > timeout - MaxTicks * interval)
            => ENABLED Tick
       /\ timer' = timer - interval =>
            /\ UNCHANGED <<state, events, inputs, focus, inputStatus, file>>
            /\ last'.io = "none"]_vars

\* C11 witness: a tick has just been handled while the add form was open
\* with text in the name field and an error message on display.
C11_Witness ==
    /\ last.msg = "tick"
    /\ timer = timeout - interval
    /\ state = showInput
    /\ inputs[1] # <<>>
    /\ inputStatus # ""

C13_QuitTerminatesInEveryState ==
    [][KeyQuit => (running' = "quit" /\ UNCHANGED <<events, file>>)]_vars

\* C14: a load that finds no events file creates it, returns exactly one
\* event, the seed named "Golang's Birthday", and has written that
\* one-element collection to the file, so that the load right after it finds
\* the file, returns the same one event and leaves the file as it is.
C14_FirstLoadSeedsAndPersists ==
    [][(StepStart /\ ~file.exists) =>
          LET again == readEventsFile(file', now')
          IN  /\ running' = "running"
              /\ file'.exists
              /\ Len(events'.items) = 1
              /\ events'.items[1].Name = GolangName
              /\ Persisted(file') = events'.items
              /\ ~again.err
              /\ again.events = events'.items
              /\ again.file = file']_vars

\* C14 witness: the program has been started without an events file at the
\* last moment of the clock; one event is in memory and in the file.
C14_Witness ==
    /\ last = [msg |-> "start", io |-> "write"]
    /\ now = MaxNow
    /\ Len(events.items) = 1
    /\ file = [exists |-> TRUE, bytes |-> Marshal(events.items)]

\* the events file holds no event: it has zero bytes or holds the empty array
EmptyStorage(f) == f.exists /\ (f.bytes = <<>> \/ f.bytes = Marshal(<<>>))

\* C15 as stated: a start that finds the events file absent or empty ends
\* with a collection of exactly one event, the seed.
C15_SeededWhenAbsentOrEmpty ==
    [][(StepStart /\ (~file.exists \/ EmptyStorage(file))) =>
          /\ running' = "running"
          /\ Len(events'.items) = 1
          /\ events'.items[1].Name = GolangName]_vars

\* C15, amended: a start that finds the events file absent ends with a
\* collection of exactly one event, the seed; a start that finds a file that
\* decodes ends with the events of the file in their order and leaves the
\* file alone, so the empty array gives the empty collection and no seed; a
\* start that finds a file that does not decode (zero bytes) fails.
C15_SeededOnlyWhenAbsent ==
    [][StepStart =>
          IF ~file.exists
          THEN /\ running' = "running"
               /\ Len(events'.items) = 1
               /\ events'.items[1].Name = GolangName
          ELSE IF Unmarshal(file.bytes).err
          THEN running' = "panic"
          ELSE /\ running' = "running"
               /\ events'.items = Persisted(file)
               /\ file' = file]_vars

\* C15 witness: the program has been started on a file that holds the empty
\* array: no event is in memory and the file is as it was.
C15_Witness ==
    /\ last = [msg |-> "start", io |-> "read"]
    /\ running = "running"
    /\ events.items = <<>>
    /\ file = [exists |-> TRUE, bytes |-> Marshal(<<>>)]

\* C16: the state after a start is noEvents if the collection that was
\* loaded is empty and showEvents otherwise, never showInput; a first start
\* without an events file is in showEvents, with the seed.
C16_InitialState ==
    [][(StepStart /\ running' = "running") =>
          /\ state' = (IF Len(events'.items) = 0 THEN noEvents ELSE showEvents)
          /\ state' # showInput
          /\ ~file.exists => (state' = showEvents /\ Len(events'.items) = 1)]_vars

\* C16 witness: right after a start: the "No events" screen, at the first
\* moment of the clock.
C16_Witness ==
    /\ last.msg = "start"
    /\ running = "running"
    /\ state = noEvents
    /\ now = 0

\* C17: a save followed by a load gives back the events that were saved, in
\* their order, whatever the file held before: after every step that writes
\* the file, a load returns without error exactly the collection in memory,
\* names with quotes and backslashes included (a save replaces the file, it
\* does not append, so a load after two saves returns the second collection
\* only).
C17_SaveThenLoad ==
    [][last'.io = "write" =>
          LET r == readEventsFile(file', now')
          IN  /\ ~r.err
              /\ r.events = events'.items
              /\ r.file = file']_vars

\* C17 witness: a start has loaded a single event whose name needs escaping;
\* a file of a single event comes from the saves of the removes only.
C17_Witness ==
    /\ last = [msg |-> "start", io |-> "read"]
    /\ Len(events.items) = 1
    /\ events.items[1].Name = <<"\\", "q">>

\* the countdown lines on the screen in the present state, and the event of
\* line i
Lines == View(state, events, now)
Target(i) == events.items[i].Time

\* target - now in whole seconds: the whole seconds that lie between now and
\* the target, negative when the target is behind
WholeSeconds(ts, t) ==
    IF ts * SubSec >= t THEN (ts * SubSec - t) \div SubSec
    ELSE -((t - ts * SubSec) \div SubSec)

\* a displayed line read back: its fields, split at the single spaces
RECURSIVE SplitFields(_)
SplitFields(s) ==
    IF \A i \in 1..Len(s) : s[i] # " " THEN <<s>>
    ELSE LET i == CHOOSE k \in 1..Len(s) :
                    s[k] = " " /\ \A j \in 1..(k - 1) : s[j] # " "
         IN  <<SubSeq(s, 1, i - 1)>> \o SplitFields(SubSeq(s, i + 1, Len(s)))

\* a field is <n><letter>: a decimal number without sign and a unit letter
FieldOk(f) ==
    /\ Len(f) >= 2
    /\ f[Len(f)] \in {"y", "d", "h", "m", "s"}
    /\ \A i \in 1..(Len(f) - 1) : f[i] \in DigitChars
    /\ Len(f) > 2 => f[1] # "0"

RECURSIVE Atoi(_)
Atoi(digits) ==
    IF digits = <<>> THEN 0
    ELSE 10 * Atoi(SubSeq(digits, 1, Len(digits) - 1)) + DigitVal(digits[Len(digits)])

FieldValue(f) == Atoi(SubSeq(f, 1, Len(f) - 1))
FieldUnit(f) == f[Len(f)]

\* the number the line shows for the unit u, 0 if the line has no such field
Component(line, u) ==
    LET fs == SplitFields(line)
        at == {i \in 1..Len(fs) : FieldUnit(fs[i]) = u}
    IN  IF at = {} THEN 0 ELSE FieldValue(fs[CHOOSE i \in at : TRUE])

\* the line is a unit breakdown: fields <n><letter>, no unit twice
IsBreakdown(line) ==
    LET fs == SplitFields(line)
    IN  /\ \A i \in 1..Len(fs) : FieldOk(fs[i])
        /\ \A i, j \in 1..Len(fs) : FieldUnit(fs[i]) = FieldUnit(fs[j]) => i = j

\* C18: the countdown of an event is the Expired marker if and only if
\* diff = target - now in whole seconds is negative, which is when the
\* target lies a whole second or more behind; for diff >= 0, diff = 0
\* included, it is a unit breakdown and not the Expired marker.
C18_ExpiredIffNegative ==
    \A i \in 1..Len(Lines) :
        /\ (Lines[i] = Expired) <=> (WholeSeconds(Target(i), now) < 0)
        /\ (Lines[i] = Expired) <=> (now - Target(i) * SubSec >= SubSec)
        /\ WholeSeconds(Target(i), now) >= 0 => IsBreakdown(Lines[i])

\* C18 witness: the event was due one second before the start of the clock
\* and the list shows it as expired.
C18_Witness ==
    /\ state = showEvents
    /\ Len(Lines) = 1
    /\ Target(1) = -1
    /\ Lines[1] = Expired
    /\ now = MaxNow

\* C19: for diff >= 0 the numbers on display recover diff:
\* years*31557600 + days*86400 + hours*3600 + minutes*60 + seconds = diff
\* with seconds and minutes below 60, hours below 24 and days at most 365,
\* so the line read back with the unit constants gives diff again.
C19_ComponentsRecoverDiff ==
    \A i \in 1..Len(Lines) :
        LET diff == WholeSeconds(Target(i), now)
            years == Component(Lines[i], "y")
            days == Component(Lines[i], "d")
            hours == Component(Lines[i], "h")
            minutes == Component(Lines[i], "m")
            seconds == Component(Lines[i], "s")
        IN  diff >= 0 =>
                /\ IsBreakdown(Lines[i])
                /\ years * 31557600 + days * 86400 + hours * 3600 + minutes * 60
                        + seconds = diff
                /\ seconds < 60
                /\ minutes < 60
                /\ hours < 24
                /\ days <= 365

\* C19 witness: a tick has refreshed the screen, and one second less than
\* two years is shown as 1y 365d 5h 59m 59s.
C19_Witness ==
    /\ state = showEvents
    /\ last.msg = "tick"
    /\ Len(Lines) = 1
    /\ Target(1) = 2 * secondsPerYear - 1
    /\ now = 0
    /\ Component(Lines[1], "y") = 1
    /\ Component(Lines[1], "d") = 365
    /\ Component(Lines[1], "h") = 5
    /\ Component(Lines[1], "m") = 59
    /\ Component(Lines[1], "s") = 59

\* C20: for diff >= 0 the line shows the units from the largest unit that is
\* not zero down to the seconds, each as <n><letter>, single spaces between
\* them, the zero units in between included: it starts with the years iff
\* years > 0, else with the days iff days > 0, else with the hours iff
\* hours > 0, else with the minutes iff minutes > 0, else it is <n>s only;
\* diff = 0 gives "0s" and diff = 45 gives "45s".
C20_LargestUnitDown ==
    \A i \in 1..Len(Lines) :
        LET diff == WholeSeconds(Target(i), now)
            fs == SplitFields(Lines[i])
            years == diff \div 31557600
            days == (diff % 31557600) \div 86400
            hours == ((diff % 31557600) % 86400) \div 3600
            minutes == (((diff % 31557600) % 86400) % 3600) \div 60
            units == <<"y", "d", "h", "m", "s">>
            first == IF years > 0 THEN 1 ELSE IF days > 0 THEN 2
                     ELSE IF hours > 0 THEN 3 ELSE IF minutes > 0 THEN 4 ELSE 5
        IN  diff >= 0 =>
                /\ \A k \in 1..Len(fs) : FieldOk(fs[k])
                /\ [k \in 1..Len(fs) |-> FieldUnit(fs[k])] = SubSeq(units, first, 5)
                /\ diff = 0 => Lines[i] = <<"0", "s">>
                /\ diff = 45 => Lines[i] = <<"4", "5", "s">>

\* C20 witness: a tick has refreshed the screen, and exactly one day is
\* shown with its zero units: 1d 0h 0m 0s.
C20_Witness ==
    /\ state = showEvents
    /\ last.msg = "tick"
    /\ Len(Lines) = 1
    /\ Target(1) = secondsPerDay
    /\ Lines[1] = <<"1", "d", " ", "0", "h", " ", "0", "m", " ", "0", "s">>

\* November 10 00:00:00 of the years 1970 to 1973, in seconds
Nov10 == <<27043200, 58579200, 90201600, 121737600>>

\* C21: whatever the moment of the first start, the time of the seed event
\* is the next November 10 00:00:00 strictly after that moment: a November
\* 10 that lies after now, with no other November 10 between now and it; at
\* the very moment of this year's November 10 it is next year's.
C21_SeedIsNextNov10 ==
    [][(StepStart /\ ~file.exists) =>
          LET seed == events'.items[1].Time
          IN  /\ \E k \in 1..Len(Nov10) : seed = Nov10[k]
              /\ seed * SubSec > now
              /\ \A k \in 1..Len(Nov10) : Nov10[k] * SubSec > now => seed <= Nov10[k]]_vars

\* C21 witness: the program has been started at the very moment of November
\* 10 1970 and the seed is due on November 10 1971.
C21_Witness ==
    /\ last = [msg |-> "start", io |-> "write"]
    /\ now = 27043200 * SubSec
    /\ events.items[1].Time = 58579200

\* C22: while the add form is open the focus is one of the four fields 0..3
\* (name, time, Cancel, Submit), before and after every step; tab moves it
\* to the next field and from Submit to the name field, shift+tab to the
\* previous field and from the name field to Submit; and tab followed by
\* shift+tab, or shift+tab followed by tab, leads back to the same field.
C22_FocusCycles ==
    [][LET next(f) == IF f = inputSubmitButton THEN inputNameField ELSE f + 1
           prev(f) == IF f = inputNameField THEN inputSubmitButton ELSE f - 1
       IN  /\ state = showInput => focus \in 0..3
           /\ state' = showInput => focus' \in 0..3
           /\ KeyNext => (focus' = next(focus) /\ prev(focus') = focus
                            /\ state' = showInput)
           /\ KeyPrev => (focus' = prev(focus) /\ next(focus') = focus
                            /\ state' = showInput)]_vars

\* C22 witness: in the open form the focus is on the name field again after
\* the time field was filled while the name field was left empty.
C22_Witness ==
    /\ state = showInput
    /\ focus = inputNameField
    /\ inputs[1] = <<>>
    /\ inputs[2] # <<>>

\* C25: rendering never fails for lack of a selection: whenever the state is
\* showEvents the list has a selected event, and the program never panics.
C25_RenderNeverPanics ==
    /\ state = showEvents => HasSelectedItem(events)
    /\ running # "panic"

\* C23: whenever a remove is handled the collection is not empty and the
\* selected index is a position in it: RemoveItem never gets an index out
\* of range.
C23_RemoveHasSelection ==
    [][KeyRemove =>
          /\ Len(events.items) > 0
          /\ events.cursor \in 0..(Len(events.items) - 1)]_vars

\* C23 witness: after a submit that failed, a remove has taken one of the
\* events; the seed event is left, on the list and in the file.
C23_Witness ==
    /\ last = [msg |-> "key", io |-> "write"]
    /\ state = showEvents
    /\ Len(events.items) = 1
    /\ events.items[1].Name = GolangName
    /\ file.bytes = Marshal(events.items)
    /\ inputStatus # ""

C26_FileNeverUndecodable ==
    file.exists => ~Unmarshal(file.bytes).err

====
